---- MODULE Spec2Model ----
(***************************************************************************)
(* Model of pushserver/management/commands/runpushserver.py: the           *)
(* `runpushserver` management command.  It resolves the bind address from  *)
(* the command line (Command.handle), merges the configuration, builds the *)
(* stores (make_store, make_stores) and the location bindings              *)
(* (make_location) and binds the HTTP listener (Command.run).              *)
(*                                                                         *)
(* Python dictionaries are functions from key strings to values; scalar    *)
(* values are rendered as strings ("6379", "False").  Address and port     *)
(* strings are sequences of one-character strings, so that the regular     *)
(* expression, the bracket stripping and the display rendering act on the  *)
(* characters.                                                             *)
(***************************************************************************)
EXTENDS Integers, Sequences, FiniteSets, TLC

VARIABLES
    default_store,     \* module-level table, lines 19-31
    default_location,  \* module-level table, lines 33-43
    defaults,          \* module-level table, lines 45-61
    call,              \* the factory call made last: function, arguments
    ret,               \* what that call returned or raised
    pc,                \* position of the command: start .. done / failed / factory
    argv,              \* command line: addrport, use_ipv6 option, extra args
    has_ipv6,          \* socket.has_ipv6 of the running Python
    PUSH_SERVER,       \* settings.PUSH_SERVER, the user's configuration object
    self,              \* the Command's attributes: addr, port, use_ipv6, _raw_ipv6
    stdout,            \* the address text written by run, as a character sequence
    conf,              \* run's local configuration dictionary
    constructed,       \* store backends instantiated so far (cls(**store_conf) calls)
    mapped,            \* the bindings map() has built so far, line 181
    bound,             \* <<port, address>> given to HTTPServer.listen, or <<>>
    error              \* the exception that ended the command, or <<>>

vars == <<default_store, default_location, defaults, call, ret, pc, argv, has_ipv6,
          PUSH_SERVER, self, stdout, conf, constructed, mapped, bound, error>>

-----------------------------------------------------------------------------
(* Bounds of the model *)

\* longest `locations` sequence of the user configuration
MaxLocations == 2
\* number of store names a `store` map of the user configuration may use
MaxStores == 2
\* number of extra (handler-specific) fields a location config may supply
MaxExtraFields == 1

-----------------------------------------------------------------------------
(* Python dictionaries *)

EmptyDict == [k \in {} |-> ""]

\* d.update(u)
Update(d, u) == [k \in DOMAIN d \cup DOMAIN u |-> IF k \in DOMAIN u THEN u[k] ELSE d[k]]

\* the dictionary left by d.pop(k) / d.pop(k, default)
Pop(d, k) == [x \in DOMAIN d \ {k} |-> d[x]]

\* d.get(k, {})
GetOrEmpty(d, k) == IF k \in DOMAIN d THEN d[k] ELSE EmptyDict

\* d.pop(k, dflt): the value returned
PopValue(d, k, dflt) == IF k \in DOMAIN d THEN d[k] ELSE dflt

\* A bug that shares the default bundle instead of copying it.
DictCopyAliased(ref) == ref

\* dict.copy(): the object the working dictionary lives in.  A copy is a fresh
\* object; every later update/pop acts on it and not on the object named `ref`.
DictCopy(ref) == "fresh"

\* The table `tbl` after the working dictionary, living in object `ref`, has
\* become `d`: unchanged unless `ref` names one of the table's own bundles.
WriteBack(tbl, ref, d) == IF ref \in DOMAIN tbl THEN [tbl EXCEPT ![ref] = d] ELSE tbl

-----------------------------------------------------------------------------
(* Module-level tables *)

DEFAULT_PORT == <<"8", "0", "0", "1">>

default_store_0 ==
    [redis  |-> [port |-> "6379", host |-> "localhost", key_prefix |-> "", database |-> "0"],
     memory |-> [min_messages |-> "0", max_messages |-> "0", message_timeout |-> "0"]]

default_location_0 ==
    [subscriber |-> [polling |-> "long", create_on_get |-> "False", store |-> "default"],
     publisher  |-> [create_on_post |-> "True", store |-> "default"]]

defaults_0 ==
    [port      |-> DEFAULT_PORT,
     address   |-> <<"1", "2", "7", ".", "0", ".", "0", ".", "1">>,
     store     |-> [type |-> "memory"],
     locations |-> << [type |-> "publisher", prefix |-> "/publisher/"],
                      [type |-> "subscriber", prefix |-> "/subscriber/"] >>]

-----------------------------------------------------------------------------
(* make_store, lines 63-79 *)

\* registry.Registry(store): the handle of the registry wrapping backend `oid`
Registry(oid) == "Registry@" \o oid

\* A bug that lets the default bundle win over the user's entry.
MergedConfDefaultsWin(bundle, entry) == Update(entry, bundle)

\* bundle.copy() followed by .update(entry), lines 64-65 and 90-91
MergedConf(bundle, entry) == Update(bundle, entry)

\* A bug that leaves out the final else: an unknown type builds a MemoryStore.
make_storeNoElse(store_dict, oid, ds) ==
    IF "type" \notin DOMAIN store_dict
    THEN [outcome |-> "KeyError", msg |-> "type", value |-> <<>>, merged |-> <<>>,
          made |-> {}, default_store |-> ds]
    ELSE
    LET merged     == MergedConf(GetOrEmpty(ds, store_dict["type"]), store_dict)
        store_conf == Pop(merged, "type")
        cls        == IF merged["type"] = "redis" THEN "RedisStore" ELSE "MemoryStore"
    IN  [outcome |-> "ok", msg |-> "",
         value |-> << [store    |-> [oid |-> oid, cls |-> cls, kwargs |-> store_conf],
                       registry |-> Registry(oid)] >>,
         merged |-> <<merged>>, made |-> {oid}, default_store |-> ds]

\* make_store(store_dict); `oid` is the identity of the backend object it
\* creates and `ds` the default_store table it reads.  `merged` is store_conf
\* as it stands after line 65, `made` the backends instantiated by line 75.
make_store(store_dict, oid, ds) ==
    IF "type" \notin DOMAIN store_dict
    THEN [outcome |-> "KeyError", msg |-> "type", value |-> <<>>, merged |-> <<>>,
          made |-> {}, default_store |-> ds]
    ELSE
    LET ref        == IF store_dict["type"] \in DOMAIN ds
                      THEN DictCopy(store_dict["type"]) ELSE "fresh"
        merged     == MergedConf(GetOrEmpty(ds, store_dict["type"]), store_dict)
        store_type == merged["type"]
        store_conf == Pop(merged, "type")
        cls        == IF store_type = "memory" THEN "MemoryStore"
                      ELSE IF store_type = "redis" THEN "RedisStore"
                      ELSE ""
    IN  IF cls = ""
        THEN [outcome |-> "CommandError",
              msg |-> "Invalid store type \"" \o store_type \o "\".",
              value |-> <<>>, merged |-> <<merged>>, made |-> {},
              default_store |-> WriteBack(ds, ref, store_conf)]
        ELSE [outcome |-> "ok", msg |-> "",
              value |-> << [store    |-> [oid |-> oid, cls |-> cls, kwargs |-> store_conf],
                            registry |-> Registry(oid)] >>,
              merged |-> <<merged>>, made |-> {oid},
              default_store |-> WriteBack(ds, ref, store_conf)]

-----------------------------------------------------------------------------
(* make_stores, lines 81-84 *)

\* line 82-83: a dictionary with a `type` key is the single store "default"
NamedStores(stores_dict) ==
    IF "type" \in DOMAIN stores_dict
    THEN [k \in {"default"} |-> stores_dict]
    ELSE stores_dict

\* The list comprehension of line 84 over the keys in iteration order `order`:
\* `acc` holds the (name, store) pairs built so far, `made` the backends
\* instantiated so far.  The first failing make_store ends the comprehension.
RECURSIVE BuildStores(_, _, _, _, _)
BuildStores(named, order, acc, made, ds) ==
    IF order = <<>>
    THEN [outcome |-> "ok", msg |-> "", value |-> <<acc>>, made |-> made,
          default_store |-> ds]
    ELSE LET k == Head(order)
             r == make_store(named[k], k, ds)
         IN  IF r.outcome # "ok"
             THEN [outcome |-> r.outcome, msg |-> r.msg, value |-> <<>>,
                   made |-> made, default_store |-> r.default_store]
             ELSE BuildStores(named, Tail(order),
                              [x \in DOMAIN acc \cup {k} |->
                                   IF x = k THEN r.value[1] ELSE acc[x]],
                              made \cup r.made, r.default_store)

\* make_stores(stores_dict) iterating the keys in the order `order`
make_stores(stores_dict, order, ds) ==
    BuildStores(NamedStores(stores_dict), order, EmptyDict, {}, ds)

\* the orders in which a dictionary's keys can be iterated
KeyOrders(d) ==
    {o \in [1..Cardinality(DOMAIN d) -> DOMAIN d] :
        \A i, j \in DOMAIN o : i # j => o[i] # o[j]}

-----------------------------------------------------------------------------
(* make_location, lines 86-111 *)

\* A bug that prefers `prefix` over an explicit `url`.
UrlPatternPrefixFirst(loc_conf) ==
    IF "prefix" \in DOMAIN loc_conf THEN loc_conf["prefix"] \o "(.+)"
    ELSE PopValue(loc_conf, "url", "(.+)")

\* line 107: loc_conf.pop('url', loc_conf.pop('prefix', '') + '(.+)')
UrlPattern(loc_conf) ==
    PopValue(loc_conf, "url", PopValue(loc_conf, "prefix", "") \o "(.+)")

\* A bug that swaps the two subscriber variants.
HandlerClassSwapped(loc_type, sub_type) ==
    IF loc_type = "publisher" THEN "Publisher"
    ELSE IF loc_type = "subscriber" /\ sub_type = "long" THEN "Subscriber"
    ELSE IF loc_type = "subscriber" /\ sub_type = "interval" THEN "LongPollingSubscriber"
    ELSE ""

\* lines 94-105: the handler class for a type and (for subscribers) a polling;
\* "" when the branch raises
HandlerClass(loc_type, sub_type) ==
    IF loc_type = "publisher" THEN "Publisher"
    ELSE IF loc_type = "subscriber" /\ sub_type = "long" THEN "LongPollingSubscriber"
    ELSE IF loc_type = "subscriber" /\ sub_type = "interval" THEN "Subscriber"
    ELSE ""

\* lines 109-110: kwargs = {'registry': ...}; kwargs.update(loc_conf)
HandlerKwargs(loc_conf, reg) == Update([registry |-> reg], loc_conf)

\* what make_location gives back when it raises `kind`
LocationRaise(kind, msg, merged, dl) ==
    [outcome |-> kind, msg |-> msg, binding |-> <<>>, merged |-> merged,
     default_location |-> dl]

\* make_location(loc_dict, stores); `dl` is the default_location table it reads.
\* `merged` is loc_conf as it stands after line 91.
make_location(loc_dict, stores, dl) ==
    IF "type" \notin DOMAIN loc_dict
    THEN LocationRaise("KeyError", "type", <<>>, dl)
    ELSE
    LET ref      == IF loc_dict["type"] \in DOMAIN dl
                    THEN DictCopy(loc_dict["type"]) ELSE "fresh"
        merged   == MergedConf(GetOrEmpty(dl, loc_dict["type"]), loc_dict)
        loc_type == merged["type"]
        c_type   == Pop(merged, "type")
        sub_type == IF loc_type = "subscriber" THEN c_type["polling"] ELSE ""
        c_poll   == IF loc_type = "subscriber" THEN Pop(c_type, "polling") ELSE c_type
        cls      == HandlerClass(loc_type, sub_type)
        url      == UrlPattern(c_poll)
        c_url    == Pop(Pop(c_poll, "prefix"), "url")
        c_store  == Pop(c_url, "store")
    IN  IF loc_type \notin {"publisher", "subscriber"}
        THEN LocationRaise("CommandError",
                           "Invalid location type \"" \o loc_type \o "\".",
                           <<merged>>, WriteBack(dl, ref, c_type))
        ELSE IF cls = ""
        THEN LocationRaise("CommandError",
                           "Invalid polling \"" \o sub_type \o "\".",
                           <<merged>>, WriteBack(dl, ref, c_poll))
        ELSE IF "store" \notin DOMAIN c_url
        THEN LocationRaise("KeyError", "store", <<merged>>, WriteBack(dl, ref, c_url))
        ELSE IF c_url["store"] \notin DOMAIN stores
        THEN LocationRaise("KeyError", c_url["store"], <<merged>>,
                           WriteBack(dl, ref, c_store))
        ELSE [outcome |-> "ok", msg |-> "",
              binding |-> << [url |-> url, cls |-> cls,
                              kwargs |-> HandlerKwargs(c_store,
                                             stores[c_url["store"]].registry)] >>,
              merged |-> <<merged>>,
              default_location |-> WriteBack(dl, ref, c_store)]

-----------------------------------------------------------------------------
(* The address:port argument: runserver.naiveip_re and Command.handle *)

Digit == {"0", "1", "2", "3", "4", "5", "6", "7", "8", "9"}
HexLetter == {"a", "b", "c", "d", "e", "f", "A", "B", "C", "D", "E", "F"}
Letter == {"a", "b", "c", "d", "e", "f", "g", "h", "i", "j", "k", "l", "m",
           "n", "o", "p", "q", "r", "s", "t", "u", "v", "w", "x", "y", "z",
           "A", "B", "C", "D", "E", "F", "G", "H", "I", "J", "K", "L", "M",
           "N", "O", "P", "Q", "R", "S", "T", "U", "V", "W", "X", "Y", "Z"}

AllIn(s, cs) == \A i \in 1..Len(s) : s[i] \in cs

\* str.isdigit(), and the pattern \d+
IsDigits(s) == Len(s) > 0 /\ AllIn(s, Digit)

\* the pieces of s between its dots
RECURSIVE Labels(_, _)
Labels(s, cur) ==
    IF s = <<>> THEN <<cur>>
    ELSE IF Head(s) = "." THEN <<cur>> \o Labels(Tail(s), <<>>)
    ELSE Labels(Tail(s), Append(cur, Head(s)))

\* \d{1,3}(?:\.\d{1,3}){3}
IsIPv4(s) ==
    LET ls == Labels(s, <<>>)
    IN  Len(ls) = 4 /\ \A i \in 1..4 : IsDigits(ls[i]) /\ Len(ls[i]) <= 3

\* \[[a-fA-F0-9:]+\]
IsBracketedIPv6(s) ==
    /\ Len(s) >= 3
    /\ s[1] = "[" /\ s[Len(s)] = "]"
    /\ AllIn(SubSeq(s, 2, Len(s) - 1), Digit \cup HexLetter \cup {":"})

\* [a-zA-Z0-9-]+(?:\.[a-zA-Z0-9-]+)*
IsFQDN(s) ==
    LET ls == Labels(s, <<>>)
    IN  \A i \in 1..Len(ls) : Len(ls[i]) > 0 /\ AllIn(ls[i], Letter \cup Digit \cup {"-"})

\* position of the last ":" of s, 0 when it has none
LastColon(s) ==
    LET cs == {i \in 1..Len(s) : s[i] = ":"}
    IN  IF cs = {} THEN 0 ELSE CHOOSE i \in cs : \A j \in cs : j <= i

\* re.match(runserver.naiveip_re, s): <<>> for None, else the one-element
\* sequence of m.groups(); a group that did not take part is <<>> (None).
\* The alternatives of `addr` are tried in the order ipv4, ipv6, fqdn.
NaiveIpMatch(s) ==
    LET i == LastColon(s)
        a == SubSeq(s, 1, i - 1)
        p == SubSeq(s, i + 1, Len(s))
        g(addr, v4, v6, fq, port) ==
            << [addr |-> addr, ipv4 |-> v4, ipv6 |-> v6, fqdn |-> fq, port |-> port] >>
    IN  IF i = 0
        THEN IF IsDigits(s) THEN g(<<>>, <<>>, <<>>, <<>>, s) ELSE <<>>
        ELSE IF ~IsDigits(p) THEN <<>>
        ELSE IF IsIPv4(a) THEN g(a, a, <<>>, <<>>, p)
        ELSE IF IsBracketedIPv6(a) THEN g(a, <<>>, a, <<>>, p)
        ELSE IF IsFQDN(a) THEN g(a, <<>>, <<>>, a, p)
        ELSE <<>>

\* a CommandError raised by handle: the message, its %s argument, and the
\* attributes assigned before the raise
AddressError(text, arg, addr, port, use_ipv6) ==
    [outcome |-> "CommandError", msg |-> text, arg |-> arg,
     addr |-> addr, port |-> port, use_ipv6 |-> use_ipv6, _raw_ipv6 |-> FALSE]

\* lines 148-150: the default host and the display flag when no host was given
Resolved(addr, port, use_ipv6, raw) ==
    [outcome |-> "ok", msg |-> "", arg |-> <<>>,
     addr |-> IF addr = <<>>
              THEN (IF use_ipv6 THEN <<":", ":", "1">>
                    ELSE <<"1", "2", "7", ".", "0", ".", "0", ".", "1">>)
              ELSE addr,
     port |-> port,
     use_ipv6 |-> use_ipv6,
     _raw_ipv6 |-> IF addr = <<>> THEN use_ipv6 ELSE raw]

\* Command.handle, lines 130-150: the address and port for a raw argument and
\* the IPv6 option.
ResolveAddress(addrport, use_ipv6) ==
    IF addrport = <<>>
    THEN Resolved(<<>>, DEFAULT_PORT, use_ipv6, FALSE)
    ELSE
    LET m == NaiveIpMatch(addrport)
    IN  IF m = <<>>
        THEN AddressError("is not a valid port number or address:port pair.", addrport,
                          <<>>, <<>>, use_ipv6)
        ELSE IF ~IsDigits(m[1].port)
        THEN AddressError("is not a valid port number.", m[1].port,
                          m[1].addr, m[1].port, use_ipv6)
        ELSE IF m[1].addr = <<>>
        THEN Resolved(<<>>, m[1].port, use_ipv6, FALSE)
        ELSE IF m[1].ipv6 # <<>>
        THEN Resolved(SubSeq(m[1].addr, 2, Len(m[1].addr) - 1), m[1].port, TRUE, TRUE)
        ELSE IF use_ipv6 /\ m[1].fqdn = <<>>
        THEN AddressError("is not a valid IPv6 address.", m[1].addr,
                          m[1].addr, m[1].port, use_ipv6)
        ELSE Resolved(m[1].addr, m[1].port, use_ipv6, FALSE)

\* A bug that brackets every address of an IPv6 run.
DisplayAddrByMode(s) == IF s.use_ipv6 THEN <<"[">> \o s.addr \o <<"]">> ELSE s.addr

\* line 168: self._raw_ipv6 and '[%s]' % self.addr or self.addr
DisplayAddr(s) == IF s._raw_ipv6 THEN <<"[">> \o s.addr \o <<"]">> ELSE s.addr

\* lines 161, 168-169: the "%(addr)s:%(port)s" of the start-up message
RunningAt(s) == DisplayAddr(s) \o <<":">> \o s.port

-----------------------------------------------------------------------------
(* Inputs *)

\* an optional value: <<>> when absent, <<x>> when present
Opt(S) == {<<>>} \cup {<<x>> : x \in S}

\* the dictionary holding the present entries of a record of optional values
MkDict(opts) == [k \in {x \in DOMAIN opts : opts[x] # <<>>} |-> opts[k][1]]

Chars(h, p) == h \o <<":">> \o p

Hosts == { <<"1", ".", "2", ".", "3", ".", "4">>,     \* IPv4
           <<"[", ":", ":", "1", "]">>,               \* bracketed IPv6 literal
           <<"a", ".", "b">>,                         \* FQDN
           <<"1", ".", "2", ".", "3">>,               \* digits, but no IPv4: an FQDN
           <<":", ":", "1">>,                         \* IPv6 without brackets
           <<"a", "_", "b">> }                        \* garbage
Ports == { <<"8", "0">>, <<"8", "x">> }
AddrPorts == {<<>>} \cup Ports \cup {Chars(h, p) : h \in Hosts, p \in Ports}

Argvs == [addrport : AddrPorts, use_ipv6 : BOOLEAN, args : {<<>>, <<"extra">>}]

NamePool == <<"default", "b", "c", "d">>
\* the store names a `store` map may use
MapNames == {NamePool[i] : i \in 1..MaxStores}

\* store entries, with and without overrides, of a known, an unknown and no type
StoreDicts ==
    { MkDict([type |-> t, max_messages |-> m, host |-> h]) :
        t \in Opt({"memory", "redis", "sqlite"}), m \in Opt({"50"}), h \in Opt({"h"}) }

\* the entries of a map of named store configs: each declares a type
MapStoreDicts == { [type |-> "memory"], [type |-> "memory", max_messages |-> "50"],
                   [type |-> "redis", host |-> "h"], [type |-> "sqlite"] }

\* name -> entry maps over the non-empty subsets of `names`
MapsOver(names, entries) ==
    UNION { [ns -> entries] : ns \in (SUBSET names) \ {{}} }

StoreMaps == MapsOver(MapNames, MapStoreDicts)

\* arguments of make_stores: one store (it has a `type`), a map, the empty map
StoresArgs == {d \in StoreDicts : "type" \in DOMAIN d} \cup StoreMaps \cup {EmptyDict}

ExtraValues == [create_on_get |-> "True", registry |-> "mine", timeout |-> "30"]
ExtraDicts ==
    { [k \in ks |-> ExtraValues[k]] :
        ks \in {x \in SUBSET DOMAIN ExtraValues : Cardinality(x) <= MaxExtraFields} }

LocDicts ==
    { Update(MkDict([type |-> t, polling |-> p, url |-> u, prefix |-> x, store |-> s]), e) :
        t \in Opt({"publisher", "subscriber", "feed"}),
        p \in Opt({"long", "interval", "burst"}),
        u \in Opt({"/events"}), x \in Opt({"/pub/"}),
        s \in Opt({"default", "b", "missing"}),
        e \in ExtraDicts }

\* resolved store maps a caller may pass to make_location (None gives {})
ResolvedMaps ==
    {EmptyDict} \cup
    UNION { { make_stores(m, o, default_store_0).value[1] : o \in KeyOrders(m) } :
            m \in MapsOver({"default", "b"},
                           {[type |-> "memory"], [type |-> "redis", host |-> "h"]}) }

\* location entries of the user configuration of a command run
RunLocDicts ==
    { [type |-> "publisher", url |-> "/events"],
      [type |-> "subscriber", polling |-> "interval", store |-> "b"],
      [type |-> "subscriber", polling |-> "burst"],
      [type |-> "feed"] }

RunLocations == UNION { [1..n -> RunLocDicts] : n \in 0..MaxLocations }

\* `store` values of the user configuration of a command run: one store, or a map
RunStores ==
    { [type |-> "memory", max_messages |-> "50"], [type |-> "redis", host |-> "h"],
      [type |-> "sqlite"] } \cup
    MapsOver({"default", "b"}, {[type |-> "memory"], [type |-> "sqlite"]})

\* settings.PUSH_SERVER: any of the four keys may be missing
Settings ==
    { MkDict([port |-> p, address |-> a, store |-> s, locations |-> l]) :
        p \in Opt({<<"9", "0", "0", "0">>}),
        a \in Opt({<<"0", ".", "0", ".", "0", ".", "0">>}),
        s \in Opt(RunStores),
        l \in Opt(RunLocations) }

-----------------------------------------------------------------------------
(* The command: Command.handle and Command.run *)

NoSelf == [addr |-> <<>>, port |-> <<>>, use_ipv6 |-> FALSE, _raw_ipv6 |-> FALSE]

Raised(type, msg, arg) == << [type |-> type, msg |-> msg, arg |-> arg] >>

Fail(type, msg, arg) ==
    /\ pc' = "failed"
    /\ error' = Raised(type, msg, arg)

\* `defaults` after run's `conf` has become `c`: untouched, conf being a copy
DefaultsAfter(c) == IF DictCopy("defaults") = "defaults" THEN c ELSE defaults

\* handle(addrport, *args, **options), lines 124-151, up to the call of run
Handle ==
    /\ pc = "start"
    /\ IF argv.use_ipv6 /\ ~has_ipv6
       THEN /\ Fail("CommandError", "Your Python does not support IPv6.", <<>>)
            /\ self' = [NoSelf EXCEPT !.use_ipv6 = argv.use_ipv6]
       ELSE IF argv.args # <<>>
       THEN /\ Fail("CommandError", "Usage is runpushserver", <<>>)
            /\ self' = [NoSelf EXCEPT !.use_ipv6 = argv.use_ipv6]
       ELSE LET r == ResolveAddress(argv.addrport, argv.use_ipv6)
            IN  /\ self' = [addr |-> r.addr, port |-> r.port,
                            use_ipv6 |-> r.use_ipv6, _raw_ipv6 |-> r._raw_ipv6]
                /\ IF r.outcome = "ok"
                   THEN pc' = "run" /\ error' = error
                   ELSE Fail(r.outcome, r.msg, r.arg)
    /\ UNCHANGED <<default_store, default_location, defaults, call, ret, argv, has_ipv6,
                   PUSH_SERVER, stdout, conf, constructed, mapped, bound>>

\* run, lines 154-171: import the settings and write the start-up message
RunAnnounce ==
    /\ pc = "run"
    /\ \E s \in Settings : PUSH_SERVER' = <<s>>
    /\ stdout' = RunningAt(self)
    /\ pc' = "conf"
    /\ UNCHANGED <<default_store, default_location, defaults, call, ret, argv, has_ipv6,
                   self, conf, constructed, mapped, bound, error>>

\* run, lines 173-178: defaults, then the resolved address, then the settings
RunConf ==
    /\ pc = "conf"
    /\ conf' = << Update(Update(defaults, [port |-> self.port, address |-> self.addr]),
                         PUSH_SERVER[1]) >>
    /\ defaults' = DefaultsAfter(conf'[1])
    /\ pc' = "stores"
    /\ UNCHANGED <<default_store, default_location, call, ret, argv, has_ipv6,
                   PUSH_SERVER, self, stdout, constructed, mapped, bound, error>>

\* run, line 180: conf['store'] = make_stores(conf['store'])
RunMakeStores ==
    /\ pc = "stores"
    /\ \E order \in KeyOrders(NamedStores(conf[1].store)) :
         LET r == make_stores(conf[1].store, order, default_store)
         IN  /\ call' = [fn |-> "make_stores", arg |-> conf[1].store, order |-> order]
             /\ ret' = r
             /\ constructed' = r.made
             /\ default_store' = r.default_store
             /\ IF r.outcome = "ok"
                THEN /\ conf' = << [conf[1] EXCEPT !.store = r.value[1]] >>
                     /\ pc' = "locations"
                     /\ error' = error
                ELSE /\ conf' = conf
                     /\ Fail(r.outcome, r.msg, <<>>)
    /\ defaults' = DefaultsAfter(conf'[1])
    /\ UNCHANGED <<default_location, argv, has_ipv6, PUSH_SERVER, self, stdout,
                   mapped, bound>>

\* run, line 181: map() passes the next location to make_location
RunMakeLocation ==
    /\ pc = "locations"
    /\ Len(mapped) < Len(conf[1].locations)
    /\ LET loc_dict == conf[1].locations[Len(mapped) + 1]
           r        == make_location(loc_dict, conf[1].store, default_location)
       IN  /\ call' = [fn |-> "make_location", arg |-> loc_dict, stores |-> conf[1].store]
           /\ ret' = r
           /\ default_location' = r.default_location
           /\ IF r.outcome = "ok"
              THEN /\ mapped' = Append(mapped, r.binding[1])
                   /\ pc' = "locations"
                   /\ error' = error
              ELSE /\ mapped' = mapped
                   /\ Fail(r.outcome, r.msg, <<>>)
    /\ UNCHANGED <<default_store, defaults, argv, has_ipv6, PUSH_SERVER, self, stdout,
                   conf, constructed, bound>>

\* A bug that binds the listener without waiting for the assembly.
RunListenEarly ==
    /\ pc \in {"stores", "locations"}
    /\ bound' = <<conf[1].port, conf[1].address>>
    /\ pc' = "loop"
    /\ UNCHANGED <<default_store, default_location, defaults, call, ret, argv, has_ipv6,
                   PUSH_SERVER, self, stdout, conf, constructed, mapped, error>>

\* run, lines 181-186: the bindings are stored and the listener is bound:
\* HTTPServer(Application(conf['locations'])).listen(conf['port'], conf['address'])
RunListen ==
    /\ pc = "locations"
    /\ Len(mapped) = Len(conf[1].locations)
    /\ conf' = << [conf[1] EXCEPT !.locations = mapped] >>
    /\ defaults' = DefaultsAfter(conf'[1])
    /\ bound' = <<conf[1].port, conf[1].address>>
    /\ pc' = "loop"
    /\ UNCHANGED <<default_store, default_location, call, ret, argv, has_ipv6,
                   PUSH_SERVER, self, stdout, constructed, mapped, error>>

\* run, line 189: ioloop.IOLoop.instance().start()
IOLoopStart ==
    /\ pc = "loop"
    /\ pc' = "serving"
    /\ UNCHANGED <<default_store, default_location, defaults, call, ret, argv, has_ipv6,
                   PUSH_SERVER, self, stdout, conf, constructed, mapped, bound, error>>

\* run, lines 190-191: the interrupt ends the loop and run returns
KeyboardInterrupt ==
    /\ pc = "serving"
    /\ pc' = "done"
    /\ UNCHANGED <<default_store, default_location, defaults, call, ret, argv, has_ipv6,
                   PUSH_SERVER, self, stdout, conf, constructed, mapped, bound, error>>

Init ==
    /\ default_store = default_store_0
    /\ default_location = default_location_0
    /\ defaults = defaults_0
    /\ call = <<>>
    /\ ret = <<>>
    /\ pc = "start"
    /\ argv \in Argvs
    /\ has_ipv6 \in BOOLEAN
    /\ PUSH_SERVER = <<>>
    /\ self = NoSelf
    /\ stdout = <<>>
    /\ conf = <<>>
    /\ constructed = {}
    /\ mapped = <<>>
    /\ bound = <<>>
    /\ error = <<>>

Next ==
    \/ Handle
    \/ RunAnnounce
    \/ RunConf
    \/ RunMakeStores
    \/ RunMakeLocation
    \/ RunListen
    \/ IOLoopStart
    \/ KeyboardInterrupt

Spec == Init /\ [][Next]_vars

-----------------------------------------------------------------------------
(* One call of a factory on its own, with any argument *)

\* the call returns (or raises) to its caller; the command is not running
CommandIdle ==
    /\ pc' = "returned"
    /\ UNCHANGED <<defaults, argv, has_ipv6, PUSH_SERVER, self, stdout, conf,
                   constructed, mapped, bound, error>>

CallMakeStore ==
    /\ pc = "factory"
    /\ \E store_dict \in StoreDicts :
         LET r == make_store(store_dict, "s", default_store)
         IN  /\ call' = [fn |-> "make_store", arg |-> store_dict]
             /\ ret' = r
             /\ default_store' = r.default_store
    /\ UNCHANGED default_location
    /\ CommandIdle

CallMakeStores ==
    /\ pc = "factory"
    /\ \E stores_dict \in StoresArgs :
       \E order \in KeyOrders(NamedStores(stores_dict)) :
         LET r == make_stores(stores_dict, order, default_store)
         IN  /\ call' = [fn |-> "make_stores", arg |-> stores_dict, order |-> order]
             /\ ret' = r
             /\ default_store' = r.default_store
    /\ UNCHANGED default_location
    /\ CommandIdle

CallMakeLocation ==
    /\ pc = "factory"
    /\ \E loc_dict \in LocDicts, stores \in ResolvedMaps :
         LET r == make_location(loc_dict, stores, default_location)
         IN  /\ call' = [fn |-> "make_location", arg |-> loc_dict, stores |-> stores]
             /\ ret' = r
             /\ default_location' = r.default_location
    /\ UNCHANGED default_store
    /\ CommandIdle

InitFactory ==
    /\ default_store = default_store_0
    /\ default_location = default_location_0
    /\ defaults = defaults_0
    /\ call = <<>>
    /\ ret = <<>>
    /\ pc = "factory"
    /\ argv = [addrport |-> <<>>, use_ipv6 |-> FALSE, args |-> <<>>]
    /\ has_ipv6 = TRUE
    /\ PUSH_SERVER = <<>>
    /\ self = NoSelf
    /\ stdout = <<>>
    /\ conf = <<>>
    /\ constructed = {}
    /\ mapped = <<>>
    /\ bound = <<>>
    /\ error = <<>>

NextFactory ==
    \/ CallMakeStore
    \/ CallMakeStores
    \/ CallMakeLocation

SpecFactory == InitFactory /\ [][NextFactory]_vars

-----------------------------------------------------------------------------
(* Properties of make_location, make_store and make_stores (SpecFactory) *)

Returned(fn) == pc = "returned" /\ call.fn = fn

\* the bundle the defaults table holds for the entry's declared type
BundleOf(table, entry) ==
    IF entry["type"] \in DOMAIN table THEN table[entry["type"]] ELSE EmptyDict

\* the value of key k after the merge, read off the two layers
Layered(table, entry, k) ==
    IF k \in DOMAIN entry THEN entry[k] ELSE BundleOf(table, entry)[k]

LayeredKeys(table, entry) == DOMAIN entry \cup DOMAIN BundleOf(table, entry)

\* a make_location call whose config declares a type
LocationCall == Returned("make_location") /\ "type" \in DOMAIN call.arg

LocationKeys == LayeredKeys(default_location_0, call.arg)
LocationField(k) == Layered(default_location_0, call.arg, k)

ConsumedKeys == {"type", "polling", "url", "prefix", "store"}

\* C1: a location whose merged `store` names no key of the store map makes
\* make_location fail with the command's configuration error (CommandError),
\* and no binding is produced.
C1_UnknownStoreIsCommandError ==
    (/\ LocationCall
     /\ "store" \in LocationKeys
     /\ LocationField("store") \notin DOMAIN call.stores)
    => (ret.outcome = "CommandError" /\ ret.binding = <<>>)

\* C5: on success the kwargs hold the registry of the store the config names,
\* every remaining field of the merged config unchanged, and none of the
\* consumed keys type, polling, url, prefix, store.
C5_KwargsRegistryAndForwardedFields ==
    (LocationCall /\ ret.outcome = "ok")
    => LET kw == ret.binding[1].kwargs
       IN  /\ "registry" \in DOMAIN kw
           /\ kw["registry"] = call.stores[LocationField("store")].registry
           /\ \A k \in LocationKeys \ ConsumedKeys :
                k \in DOMAIN kw /\ (k # "registry" => kw[k] = LocationField(k))
           /\ DOMAIN kw \cap ConsumedKeys = {}

\* C6: the handler follows the (type, polling) pair of the merged config:
\* publisher gives Publisher whatever the polling; subscriber gives
\* LongPollingSubscriber for `long` (the default) and Subscriber for
\* `interval`, and fails with 'Invalid polling' otherwise; any other type
\* fails with 'Invalid location type'.
C6_HandlerByTypeAndPolling ==
    LocationCall
    => LET t  == call.arg["type"]
           p  == IF "polling" \in DOMAIN call.arg THEN call.arg["polling"] ELSE "long"
           ok == LocationField("store") \in DOMAIN call.stores
           selects(cls) == /\ ret.outcome # "CommandError"
                           /\ ok => (ret.outcome = "ok" /\ ret.binding[1].cls = cls)
           fails(msg) == /\ ret.outcome = "CommandError"
                         /\ ret.msg = msg
                         /\ ret.binding = <<>>
       IN  CASE t = "publisher" -> selects("Publisher")
             [] t = "subscriber" /\ p = "long" -> selects("LongPollingSubscriber")
             [] t = "subscriber" /\ p = "interval" -> selects("Subscriber")
             [] t = "subscriber" /\ p \notin {"long", "interval"} ->
                    fails("Invalid polling \"" \o p \o "\".")
             [] OTHER -> fails("Invalid location type \"" \o t \o "\".")

C6_DefaultPollingIsLong ==
    /\ LocationCall
    /\ call.arg["type"] = "subscriber"
    /\ "polling" \notin DOMAIN call.arg
    /\ ret.outcome = "ok"
    /\ ret.binding[1].cls = "LongPollingSubscriber"

\* C8: the URL pattern is `url` verbatim when supplied, with or without a
\* prefix; else the prefix followed by "(.+)"; else "(.+)".
C8_UrlPattern ==
    (LocationCall /\ ret.outcome = "ok")
    => ret.binding[1].url =
          (IF "url" \in DOMAIN call.arg THEN call.arg["url"]
           ELSE IF "prefix" \in DOMAIN call.arg THEN call.arg["prefix"] \o "(.+)"
           ELSE "(.+)")

C8_UrlAndPrefixSupplied ==
    /\ LocationCall
    /\ ret.outcome = "ok"
    /\ {"url", "prefix"} \subseteq DOMAIN call.arg
    /\ ret.binding[1].url = "/events"

\* C9: the merged config of a store or location entry is the default bundle
\* of its declared type (empty for an unknown type) overlaid key by key with
\* the entry, the entry winning; {type: memory} merges to the three memory
\* defaults at 0 and {type: memory, max_messages: 50} differs only there.
C9_MergedIsDefaultsOverlaid ==
    /\ \A fn \in {"make_store", "make_location"} :
         (Returned(fn) /\ "type" \in DOMAIN call.arg)
         => LET table == IF fn = "make_store" THEN default_store_0 ELSE default_location_0
                m     == ret.merged[1]
            IN  /\ DOMAIN m = LayeredKeys(table, call.arg)
                /\ \A k \in DOMAIN call.arg : m[k] = call.arg[k]
                /\ \A k \in DOMAIN BundleOf(table, call.arg) \ DOMAIN call.arg :
                       m[k] = table[call.arg["type"]][k]
    /\ (Returned("make_store") /\ call.arg = [type |-> "memory"])
       => ret.merged[1] = [type |-> "memory", min_messages |-> "0",
                           max_messages |-> "0", message_timeout |-> "0"]
    /\ (Returned("make_store") /\ call.arg = [type |-> "memory", max_messages |-> "50"])
       => ret.merged[1] = [type |-> "memory", min_messages |-> "0",
                           max_messages |-> "50", message_timeout |-> "0"]

C9_MaxMessagesOverridden ==
    /\ Returned("make_store")
    /\ call.arg = [type |-> "memory", max_messages |-> "50"]
    /\ ret.outcome = "ok"
    /\ ret.value[1].store.kwargs["max_messages"] = "50"

\* a make_stores call on a map of named store configs, each declaring a type
StoresMapCall ==
    /\ Returned("make_stores")
    /\ "type" \notin DOMAIN call.arg
    /\ \A k \in DOMAIN call.arg : "type" \in DOMAIN call.arg[k]

KnownStoreType(entry) == "type" \in DOMAIN entry /\ entry["type"] \in {"memory", "redis"}

InvalidStoreType(entry) ==
    "type" \in DOMAIN entry /\ entry["type"] \notin {"memory", "redis"}

SomeInvalidStoreType == \E k \in DOMAIN call.arg : InvalidStoreType(call.arg[k])

\* the position, in the iteration order, of the first entry make_store rejects
FirstRejected ==
    CHOOSE i \in 1..Len(call.order) :
        /\ ~KnownStoreType(call.arg[call.order[i]])
        /\ \A j \in 1..(i - 1) : KnownStoreType(call.arg[call.order[j]])

\* C4 as stated: a map with an entry of invalid type makes make_stores fail
\* with the 'Invalid store type' error carrying the type, and at the failure
\* no backend or registry exists for any name of the map.
C4_NothingBuiltOnInvalidType ==
    (StoresMapCall /\ SomeInvalidStoreType)
    => /\ ret.outcome = "CommandError"
       /\ \E k \in DOMAIN call.arg :
            /\ InvalidStoreType(call.arg[k])
            /\ ret.msg = "Invalid store type \"" \o call.arg[k]["type"] \o "\"."
       /\ ret.value = <<>>
       /\ ret.made = {}

\* C4 amended: such a map never yields a store map; make_stores fails with
\* the 'Invalid store type' error carrying the type of the first invalid
\* entry in iteration order; the backend and registry of exactly the entries
\* iterated before it have been built by then, those after it never are.
C4_FailsAtFirstRejectedEntry ==
    (StoresMapCall /\ SomeInvalidStoreType)
    => LET entry == call.arg[call.order[FirstRejected]]
       IN  /\ ret.value = <<>>
           /\ ret.made = {call.order[j] : j \in 1..(FirstRejected - 1)}
           /\ ret.outcome = "CommandError"
           /\ ret.msg = "Invalid store type \"" \o entry["type"] \o "\"."

C4_BuiltBeforeInvalidEntry ==
    /\ StoresMapCall
    /\ SomeInvalidStoreType
    /\ ret.outcome = "CommandError"
    /\ ret.made # {}

-----------------------------------------------------------------------------
(* Properties of a run of the command (Spec) *)

\* the `store` and `locations` the run works from: the user's, else the default
EffectiveStore ==
    IF "store" \in DOMAIN PUSH_SERVER[1] THEN PUSH_SERVER[1]["store"] ELSE defaults_0.store
EffectiveLocations ==
    IF "locations" \in DOMAIN PUSH_SERVER[1] THEN PUSH_SERVER[1]["locations"]
    ELSE defaults_0.locations

EffectiveStoreNames ==
    IF "type" \in DOMAIN EffectiveStore THEN {"default"} ELSE DOMAIN EffectiveStore

AddressAccepted ==
    /\ ~(argv.use_ipv6 /\ ~has_ipv6)
    /\ argv.args = <<>>
    /\ ResolveAddress(argv.addrport, argv.use_ipv6).outcome = "ok"

StoresValid ==
    IF "type" \in DOMAIN EffectiveStore THEN KnownStoreType(EffectiveStore)
    ELSE \A k \in DOMAIN EffectiveStore : KnownStoreType(EffectiveStore[k])

LocationValid(l) ==
    /\ "type" \in DOMAIN l
    /\ \/ l["type"] = "publisher"
       \/ /\ l["type"] = "subscriber"
          /\ Layered(default_location_0, l, "polling") \in {"long", "interval"}
    /\ Layered(default_location_0, l, "store") \in EffectiveStoreNames

Listened == bound # <<>>

\* C2: whenever the listener is bound, it is bound on the port and host that
\* handle resolved from the command line, whatever the user configuration.
C2_ListensOnResolvedAddress ==
    Listened => (bound[1] = self.port /\ bound[2] = self.addr)

\* C3: listen (and the event loop) happen only after the address, every store
\* and every location binding have been built without error; once anything
\* has failed, the listener is never bound.
C3_ListenOnlyAfterAssembly ==
    /\ (Listened \/ pc \in {"loop", "serving", "done"})
       => /\ Listened
          /\ error = <<>>
          /\ AddressAccepted
          /\ StoresValid
          /\ \A i \in 1..Len(EffectiveLocations) : LocationValid(EffectiveLocations[i])
          /\ conf # <<>>
          /\ DOMAIN conf[1].store = EffectiveStoreNames
          /\ constructed = EffectiveStoreNames
          /\ Len(mapped) = Len(EffectiveLocations)
    /\ error # <<>> => (~Listened /\ pc = "failed")

C3_ServingAfterFullAssembly ==
    /\ pc = "serving"
    /\ Listened
    /\ Cardinality(constructed) = 2
    /\ Len(mapped) = 2

\* C7: the text printed for the resolved address (host in brackets exactly
\* when _raw_ipv6, ':' and the port) is accepted by the address resolution
\* when given again with the resulting IPv6 mode.
C7_PrintedAddressAcceptedAgain ==
    stdout # <<>> => ResolveAddress(stdout, self.use_ipv6).outcome = "ok"

C7_FqdnUnderIPv6Printed ==
    /\ stdout = <<"a", ".", "b", ":", "8", "0">>
    /\ argv.use_ipv6
    /\ self.use_ipv6
    /\ ~self._raw_ipv6

\* C10: whatever calls of make_stores, make_store and make_location the run
\* has made, succeeding or failing, the three module-level tables are as at
\* import, the dictionary the last call was given is still the one the
\* configuration holds, and the same call made again gives the same result.
C10_TablesAndArgumentsUntouched ==
    /\ default_store = default_store_0
    /\ default_location = default_location_0
    /\ defaults = defaults_0
    /\ (call # <<>> /\ call.fn = "make_stores")
       => /\ call.arg = EffectiveStore
          /\ make_stores(call.arg, call.order, default_store) = ret
    /\ (call # <<>> /\ call.fn = "make_location")
       => /\ call.arg = EffectiveLocations[IF ret.outcome = "ok" THEN Len(mapped)
                                           ELSE Len(mapped) + 1]
          /\ make_location(call.arg, call.stores, default_location) = ret

C10_RunWithCallsDone ==
    /\ pc = "done"
    /\ call # <<>>
    /\ call.fn = "make_location"
    /\ Cardinality(constructed) = 2
    /\ Len(mapped) = 2

====
